---- MODULE Spec2Model ----
(***************************************************************************)
(* Markdown transformers of lexical-markdown (v2/MarkdownTransformers.js): *)
(* the element transformers (heading, quote, code, unordered and ordered   *)
(* list), the text-format transformers and the link text-match             *)
(* transformer, together with the line importer and the exporter that      *)
(* drive them.                                                             *)
(*                                                                         *)
(* A string is a sequence of one-character strings.  A document is the     *)
(* sequence of the root's top-level blocks; every node is a record with a  *)
(* "type" field.  A character is a one-character string, except the       *)
(* backquote, which is written Backtick.  The selection (node.select(0,    *)
(* 0)) is not part of the state: no operation below reads it.              *)
(***************************************************************************)
EXTENDS Integers, Sequences, FiniteSets, TLC

VARIABLES root, markdown, output, lastReplace

vars == <<root, markdown, output, lastReplace>>

(***************************************************************************)
(* Characters and strings                                                  *)
(***************************************************************************)

\* \s of a JavaScript regular expression, over the characters of the model
Whitespace == {" ", "\t"}

\* \d
Digits == {"0", "1", "2", "3", "4", "5", "6", "7", "8", "9"}

Letters == {"a", "b", "c", "e", "h", "j", "p", "s", "t", "x"}

\* \w
WordChars == Letters \cup Digits \cup {"_"}

NL == "\n"

\* The backquote character (a string of the model cannot hold it literally)
Backtick == "BQ"

Max(S) == CHOOSE x \in S : \A y \in S : y <= x

Last(s) == s[Len(s)]

Front(s) == SubSeq(s, 1, Len(s) - 1)

\* s.slice(n)
Slice(s, n) == SubSeq(s, n + 1, Len(s))

\* c.repeat(n)
Repeat(c, n) == [i \in 1..n |-> c]

AllIn(s, from, to, S) == \A i \in from..to : s[i] \in S

RECURSIVE Flatten(_)
Flatten(ss) == IF ss = <<>> THEN <<>> ELSE Head(ss) \o Flatten(Tail(ss))

\* array.join(sep)
RECURSIVE Join(_, _)
Join(ss, sep) ==
  IF ss = <<>> THEN <<>>
  ELSE IF Len(ss) = 1 THEN Head(ss)
  ELSE Head(ss) \o sep \o Join(Tail(ss), sep)

\* string.split('\n')
RECURSIVE SplitLines(_)
SplitLines(s) ==
  IF \A i \in 1..Len(s) : s[i] # NL THEN <<s>>
  ELSE LET i == CHOOSE k \in 1..Len(s) : s[k] = NL /\ \A j \in 1..(k - 1) : s[j] # NL
       IN <<SubSeq(s, 1, i - 1)>> \o SplitLines(Slice(s, i))

DigitValue(c) ==
  CASE c = "0" -> 0 [] c = "1" -> 1 [] c = "2" -> 2 [] c = "3" -> 3 [] c = "4" -> 4
    [] c = "5" -> 5 [] c = "6" -> 6 [] c = "7" -> 7 [] c = "8" -> 8 [] c = "9" -> 9

DigitChar(n) ==
  CASE n = 0 -> "0" [] n = 1 -> "1" [] n = 2 -> "2" [] n = 3 -> "3" [] n = 4 -> "4"
    [] n = 5 -> "5" [] n = 6 -> "6" [] n = 7 -> "7" [] n = 8 -> "8" [] n = 9 -> "9"

\* Number(digits) of a non-empty string of decimal digits
RECURSIVE Number(_)
Number(ds) ==
  IF ds = <<>> THEN 0 ELSE 10 * Number(Front(ds)) + DigitValue(Last(ds))

\* `${n}` of a natural number
RECURSIVE NumberToString(_)
NumberToString(n) ==
  IF n < 10 THEN <<DigitChar(n)>>
  ELSE NumberToString(n \div 10) \o <<DigitChar(n % 10)>>

(***************************************************************************)
(* Regular expressions of the element transformers.  A match is a record:  *)
(* ok, len (the length of match[0]) and the capture groups g1, g2; a       *)
(* group that did not take part is the empty string.  Greedy quantifiers   *)
(* take the longest repetition for which the rest of the pattern matches.  *)
(***************************************************************************)

NoMatch == [ok |-> FALSE, len |-> 0, g1 |-> <<>>, g2 |-> <<>>]

\* the heading pattern without its anchor, /(#{1,6})\s/: it matches anywhere
HeadingRegExpUnanchored(line) ==
  LET IKs == {ik \in (1..Len(line)) \X (1..6) :
                /\ ik[1] + ik[2] <= Len(line)
                /\ AllIn(line, ik[1], ik[1] + ik[2] - 1, {"#"})
                /\ line[ik[1] + ik[2]] \in Whitespace}
  IN IF IKs = {} THEN NoMatch
     ELSE LET i == CHOOSE x \in {ik[1] : ik \in IKs} : \A y \in {ik[1] : ik \in IKs} : x <= y
              k == Max({ik[2] : ik \in {x \in IKs : x[1] = i}})
          IN [ok |-> TRUE, len |-> k + 1, g1 |-> SubSeq(line, i, i + k - 1), g2 |-> <<>>]

\* /^(#{1,6})\s/
HeadingRegExp(line) ==
  LET Ks == {k \in 1..6 : /\ k + 1 <= Len(line)
                          /\ AllIn(line, 1, k, {"#"})
                          /\ line[k + 1] \in Whitespace}
  IN IF Ks = {} THEN NoMatch
     ELSE [ok |-> TRUE, len |-> Max(Ks) + 1, g1 |-> SubSeq(line, 1, Max(Ks)), g2 |-> <<>>]

\* /^>\s/
QuoteRegExp(line) ==
  IF Len(line) >= 2 /\ line[1] = ">" /\ line[2] \in Whitespace
  THEN [ok |-> TRUE, len |-> 2, g1 |-> <<>>, g2 |-> <<>>]
  ELSE NoMatch

\* /^```(\w{1,10})?\s/
CodeRegExp(line) ==
  LET Ks == {k \in 0..10 : /\ 3 + k + 1 <= Len(line)
                           /\ AllIn(line, 1, 3, {Backtick})
                           /\ AllIn(line, 4, 3 + k, WordChars)
                           /\ line[3 + k + 1] \in Whitespace}
  IN IF Ks = {} THEN NoMatch
     ELSE [ok |-> TRUE, len |-> 3 + Max(Ks) + 1,
           g1 |-> SubSeq(line, 4, 3 + Max(Ks)), g2 |-> <<>>]

\* /^(\s*)[-*+]\s/
UnorderedListRegExp(line) ==
  LET Ws == {w \in 0..Len(line) : /\ w + 2 <= Len(line)
                                  /\ AllIn(line, 1, w, Whitespace)
                                  /\ line[w + 1] \in {"-", "*", "+"}
                                  /\ line[w + 2] \in Whitespace}
  IN IF Ws = {} THEN NoMatch
     ELSE [ok |-> TRUE, len |-> Max(Ws) + 2, g1 |-> SubSeq(line, 1, Max(Ws)), g2 |-> <<>>]

\* /^(\s*)(\d{1,})\.\s/
OrderedListRegExp(line) ==
  LET WD == {wd \in (0..Len(line)) \X (1..Len(line)) :
               /\ wd[1] + wd[2] + 2 <= Len(line)
               /\ AllIn(line, 1, wd[1], Whitespace)
               /\ AllIn(line, wd[1] + 1, wd[1] + wd[2], Digits)
               /\ line[wd[1] + wd[2] + 1] = "."
               /\ line[wd[1] + wd[2] + 2] \in Whitespace}
  IN IF WD = {} THEN NoMatch
     ELSE LET w == Max({wd[1] : wd \in WD})
              d == Max({wd[2] : wd \in {x \in WD : x[1] = w}})
          IN [ok |-> TRUE, len |-> w + d + 2,
              g1 |-> SubSeq(line, 1, w), g2 |-> SubSeq(line, w + 1, w + d)]

(***************************************************************************)
(* Nodes of the document tree                                              *)
(***************************************************************************)

\* $createTextNode(text), then setFormat(format)
TextNode(text, format) == [type |-> "text", text |-> text, format |-> format]

\* $createLinkNode(url), then append(children)
LinkNode(url, children) == [type |-> "link", url |-> url, children |-> children]

ParagraphNode(children) == [type |-> "paragraph", children |-> children]

\* $createHeadingNode(tag), then append(children)
HeadingNode(tag, children) == [type |-> "heading", tag |-> tag, children |-> children]

\* $createQuoteNode(), then append(children)
QuoteNode(children) == [type |-> "quote", children |-> children]

\* $createCodeNode(language), then append(children); no language is ""
CodeNode(language, children) ==
  [type |-> "code", language |-> language, children |-> children]

\* $createListNode(tag, start), then append(children)
ListNode(tag, start, children) ==
  [type |-> "list", tag |-> tag, start |-> start, children |-> children]

\* $createListItemNode(), then append(children)
ListItemNode(children) == [type |-> "listitem", children |-> children]

IsTextNode(node) == node.type = "text"

IsLinkNode(node) == node.type = "link"

IsListNode(node) == node.type = "list"

IsListItemNode(node) == node.type = "listitem"

\* node.getTextContent()
RECURSIVE TextContent(_)
TextContent(node) ==
  IF IsTextNode(node) THEN node.text
  ELSE Flatten([i \in 1..Len(node.children) |-> TextContent(node.children[i])])

(***************************************************************************)
(* Text-format transformers                                                *)
(***************************************************************************)

INLINE_CODE == [format |-> <<"code">>, tag |-> <<Backtick>>]

\* the '***' transformer with the format of '**'
BOLD_ITALIC_STAR_BoldOnly == [format |-> <<"bold">>, tag |-> <<"*", "*", "*">>]

BOLD_ITALIC_STAR == [format |-> <<"bold", "italic">>, tag |-> <<"*", "*", "*">>]

BOLD_ITALIC_UNDERSCORE == [format |-> <<"bold", "italic">>, tag |-> <<"_", "_", "_">>]

BOLD_STAR == [format |-> <<"bold">>, tag |-> <<"*", "*">>]

BOLD_UNDERSCORE == [format |-> <<"bold">>, tag |-> <<"_", "_">>]

STRIKETHROUGH == [format |-> <<"strikethrough">>, tag |-> <<"~", "~">>]

ITALIC_STAR == [format |-> <<"italic">>, tag |-> <<"*">>]

ITALIC_UNDERSCORE == [format |-> <<"italic">>, tag |-> <<"_">>]

\* The text-format transformers of the standard set, in precedence order
TEXT_FORMAT_TRANSFORMERS ==
  <<INLINE_CODE, BOLD_ITALIC_STAR, BOLD_ITALIC_UNDERSCORE, BOLD_STAR,
    BOLD_UNDERSCORE, STRIKETHROUGH, ITALIC_STAR, ITALIC_UNDERSCORE>>

Range(s) == {s[i] : i \in 1..Len(s)}

(***************************************************************************)
(* LINK, the text-match transformer                                        *)
(***************************************************************************)

\* importRegExp: /(?:\[([^[]+)\])(?:\(([^(]+)\))/, leftmost match, both groups
\* greedy.  index is the position of the match, g1 the text, g2 the url.
LinkImportRegExp(text) ==
  LET n == Len(text)
      Opens == {i \in 1..n : text[i] = "["}
      Middles(i) == {j \in (i + 2)..(n - 1) : /\ text[j] = "]"
                                               /\ text[j + 1] = "("
                                               /\ \A x \in (i + 1)..(j - 1) : text[x] # "["}
      Closes(j) == {k \in (j + 3)..n : /\ text[k] = ")"
                                       /\ \A x \in (j + 2)..(k - 1) : text[x] # "("}
      M == UNION {UNION {{<<i, j, k>> : k \in Closes(j)} : j \in Middles(i)} : i \in Opens}
  IN IF M = {} THEN [ok |-> FALSE, index |-> 0, len |-> 0, g1 |-> <<>>, g2 |-> <<>>]
     ELSE LET i == CHOOSE x \in {m[1] : m \in M} : \A y \in {m[1] : m \in M} : x <= y
              j == Max({m[2] : m \in {x \in M : x[1] = i}})
              k == Max({m[3] : m \in {x \in M : x[1] = i /\ x[2] = j}})
          IN [ok |-> TRUE, index |-> i, len |-> k - i + 1,
              g1 |-> SubSeq(text, i + 1, j - 1), g2 |-> SubSeq(text, j + 2, k - 1)]

\* LINK.replace(textNode, match): the node that takes textNode's place
LINK_replace(textNode, match) ==
  LET linkText == match.g1
      linkUrl == match.g2
      linkTextNode == TextNode(linkText, textNode.format)
  IN LinkNode(linkUrl, <<linkTextNode>>)

(***************************************************************************)
(* Inline import of a text run: text-format matching, then text-match      *)
(* matching on the runs that are not code.                                 *)
(***************************************************************************)

StartsAt(text, i, tag) ==
  /\ i + Len(tag) - 1 <= Len(text)
  /\ SubSeq(text, i, i + Len(tag) - 1) = tag

\* the positions where tag, opened at i, can close around a non-empty span
Closings(text, i, tag) ==
  {j \in (i + Len(tag) + 1)..Len(text) : StartsAt(text, j, tag)}

\* the transformers, by index, that open at i and close later
Openers(text, i) ==
  {t \in 1..Len(TEXT_FORMAT_TRANSFORMERS) :
     /\ StartsAt(text, i, TEXT_FORMAT_TRANSFORMERS[t].tag)
     /\ Closings(text, i, TEXT_FORMAT_TRANSFORMERS[t].tag) # {}}

Min(S) == CHOOSE x \in S : \A y \in S : x <= y

\* bulk import of the text-match transformer over one text node
RECURSIVE importTextMatchTransformers(_)
importTextMatchTransformers(textNode) ==
  LET text == textNode.text
      match == LinkImportRegExp(text)
  IN IF ~match.ok THEN <<textNode>>
     ELSE LET before == SubSeq(text, 1, match.index - 1)
              matched == SubSeq(text, match.index, match.index + match.len - 1)
              after == Slice(text, match.index + match.len - 1)
          IN (IF before = <<>> THEN <<>> ELSE <<TextNode(before, textNode.format)>>)
             \o <<LINK_replace(TextNode(matched, textNode.format), match)>>
             \o (IF after = <<>> THEN <<>>
                 ELSE importTextMatchTransformers(TextNode(after, textNode.format)))

RECURSIVE importTextFormat(_, _)
importTextFormat(text, format) ==
  IF text = <<>> THEN <<>>
  ELSE LET Is == {i \in 1..Len(text) : Openers(text, i) # {}}
       IN IF Is = {} THEN importTextMatchTransformers(TextNode(text, format))
          ELSE LET i == Min(Is)
                   transformer == TEXT_FORMAT_TRANSFORMERS[Min(Openers(text, i))]
                   tag == transformer.tag
                   j == Min(Closings(text, i, tag))
                   inner == SubSeq(text, i + Len(tag), j - 1)
                   styled == format \cup Range(transformer.format)
               IN importTextFormat(SubSeq(text, 1, i - 1), format)
                  \o (IF "code" \in styled THEN <<TextNode(inner, styled)>>
                      ELSE importTextFormat(inner, styled))
                  \o importTextFormat(Slice(text, j + Len(tag) - 1), format)

\* the children a text node holding text becomes
importTextFormatTransformers(text) ==
  IF text = <<>> THEN <<TextNode(<<>>, {})>> ELSE importTextFormat(text, {})

(***************************************************************************)
(* Element transformers: replace                                           *)
(***************************************************************************)

Null == [type |-> "null"]

\* replaceWithBlock(createNode): blocks are the children of the root, the
\* last of them the paragraph (parentNode) that the created node replaces
replaceWithBlock(created, blocks, children) ==
  LET node == [created EXCEPT !.children = @ \o children]
  IN Append(Front(blocks), node)

\* the tag taken from the whole match, 'h' + match[0].length
HEADING_createNodeWholeMatch(match) ==
  HeadingNode(<<"h">> \o NumberToString(match.len), <<>>)

\* createNode of HEADING: the tag is 'h' + match[1].length
HEADING_createNode(match) ==
  HeadingNode(<<"h">> \o NumberToString(Len(match.g1)), <<>>)

HEADING_replace(blocks, children, match) ==
  replaceWithBlock(HEADING_createNode(match), blocks, children)

QUOTE_replace(blocks, children, match) ==
  replaceWithBlock(QuoteNode(<<>>), blocks, children)

\* createNode of CODE
CODE_createNode(match) == CodeNode(match.g1, <<>>)

CODE_replace(blocks, children, match) ==
  replaceWithBlock(CODE_createNode(match), blocks, children)

\* Amount of spaces that define indentation level
LIST_INDENT_SIZE == 4

\* the indent rounded up, Math.ceil(match[1].length / LIST_INDENT_SIZE)
ListIndentCeil(match) == (Len(match.g1) + LIST_INDENT_SIZE - 1) \div LIST_INDENT_SIZE

\* Math.floor(match[1].length / LIST_INDENT_SIZE)
ListIndent(match) == Len(match.g1) \div LIST_INDENT_SIZE

\* the condition without the comparison of the tags
ListAppendsAnyList(previousNode, listTag) == IsListNode(previousNode)

\* the condition with the comparison of the tags negated
ListAppendsOtherTag(previousNode, listTag) ==
  IsListNode(previousNode) /\ previousNode.tag # listTag

\* $isListNode(previousNode) && previousNode.getTag() === listTag
ListAppends(previousNode, listTag) ==
  IsListNode(previousNode) /\ previousNode.tag = listTag

\* listTag === 'ol' ? Number(match[2]) : undefined; a list without start starts at 1
ListStart(listTag, match) == IF listTag = "ol" THEN Number(match.g2) ELSE 1

\* a list item whose only child is a list: one level of nesting
IsNestedListNode(node) ==
  /\ IsListItemNode(node)
  /\ Len(node.children) = 1
  /\ IsListNode(node.children[1])

\* the list with item appended indent levels below it: one level down is the
\* list nested in the last item when there is one, a new nested list of
\* the same tag otherwise
RECURSIVE IndentedAppend(_, _, _)
IndentedAppend(list, item, indent) ==
  IF indent = 0 THEN [list EXCEPT !.children = Append(@, item)]
  ELSE IF list.children # <<>> /\ IsNestedListNode(Last(list.children))
  THEN [list EXCEPT !.children =
          Append(Front(@),
                 ListItemNode(<<IndentedAppend(Last(@).children[1], item, indent - 1)>>))]
  ELSE [list EXCEPT !.children =
          Append(@, ListItemNode(
                      <<IndentedAppend(ListNode(list.tag, 1, <<>>), item, indent - 1)>>))]

\* listItem.setIndent(indent), listItem the last child of list
setIndent(list, indent) ==
  IndentedAppend([list EXCEPT !.children = Front(@)], Last(list.children), indent)

\* listItem.getIndent(), listItem the last item of list that is no nesting
RECURSIVE getIndent(_)
getIndent(list) ==
  IF list.children # <<>> /\ IsNestedListNode(Last(list.children))
  THEN 1 + getIndent(Last(list.children).children[1])
  ELSE 0

previousSibling(blocks) ==
  IF Len(blocks) >= 2 THEN blocks[Len(blocks) - 1] ELSE Null

\* listReplace(listTag)
listReplace(listTag, blocks, children, match) ==
  LET previousNode == previousSibling(blocks)
      listItem == ListItemNode(children)
      indent == ListIndent(match)
      list == IF ListAppends(previousNode, listTag)
              THEN [previousNode EXCEPT !.children = Append(@, listItem)]
              ELSE ListNode(listTag, ListStart(listTag, match), <<listItem>>)
      kept == IF ListAppends(previousNode, listTag)
              THEN SubSeq(blocks, 1, Len(blocks) - 2)
              ELSE Front(blocks)
  IN Append(kept, IF indent # 0 THEN setIndent(list, indent) ELSE list)

UNORDERED_LIST_replace(blocks, children, match) ==
  listReplace("ul", blocks, children, match)

ORDERED_LIST_replace(blocks, children, match) ==
  listReplace("ol", blocks, children, match)

\* The element transformers of the standard set, in precedence order
ELEMENT_TRANSFORMERS == <<"code", "heading", "quote", "ul", "ol">>

RegExpOf(transformer, line) ==
  CASE transformer = "code" -> CodeRegExp(line)
    [] transformer = "heading" -> HeadingRegExp(line)
    [] transformer = "quote" -> QuoteRegExp(line)
    [] transformer = "ul" -> UnorderedListRegExp(line)
    [] transformer = "ol" -> OrderedListRegExp(line)

ReplaceOf(transformer, blocks, children, match) ==
  CASE transformer = "code" -> CODE_replace(blocks, children, match)
    [] transformer = "heading" -> HEADING_replace(blocks, children, match)
    [] transformer = "quote" -> QUOTE_replace(blocks, children, match)
    [] transformer = "ul" -> UNORDERED_LIST_replace(blocks, children, match)
    [] transformer = "ol" -> ORDERED_LIST_replace(blocks, children, match)

\* the first transformer of the order whose regExp matches the line, or "none"
FirstMatch(order, line) ==
  LET Ts == {t \in 1..Len(order) : RegExpOf(order[t], line).ok}
  IN IF Ts = {} THEN "none" ELSE order[Min(Ts)]

(***************************************************************************)
(* Export                                                                  *)
(***************************************************************************)

\* what an export function returns: a string, or null
Result(text) == [null |-> FALSE, text |-> text]

NullResult == [null |-> TRUE, text |-> <<>>]

\* exportFormat(textNode, textContent): the tags of the transformers of a
\* single format, in precedence order, one tag for each format of the node
RECURSIVE exportTextFormatFrom(_, _, _, _)
exportTextFormatFrom(node, textContent, t, applied) ==
  IF t > Len(TEXT_FORMAT_TRANSFORMERS) THEN textContent
  ELSE LET transformer == TEXT_FORMAT_TRANSFORMERS[t]
           format == transformer.format[1]
       IN IF Len(transformer.format) = 1 /\ format \in node.format /\ format \notin applied
          THEN exportTextFormatFrom(node, transformer.tag \o textContent \o transformer.tag,
                                    t + 1, applied \cup {format})
          ELSE exportTextFormatFrom(node, textContent, t + 1, applied)

exportTextFormat(node, textContent) == exportTextFormatFrom(node, textContent, 1, {})

\* LINK.export without the test of the number of children
LINK_exportFirstChild(node) ==
  IF ~IsLinkNode(node) THEN NullResult
  ELSE LET linkContent == <<"[">> \o TextContent(node) \o <<"]", "(">> \o node.url \o <<")">>
       IN IF Len(node.children) >= 1 /\ IsTextNode(node.children[1])
          THEN Result(exportTextFormat(node.children[1], linkContent))
          ELSE Result(linkContent)

\* LINK.export(node, exportChildren, exportFormat)
LINK_export(node) ==
  IF ~IsLinkNode(node) THEN NullResult
  ELSE LET linkContent == <<"[">> \o TextContent(node) \o <<"]", "(">> \o node.url \o <<")">>
       IN IF Len(node.children) = 1 /\ IsTextNode(node.children[1])
          THEN Result(exportTextFormat(node.children[1], linkContent))
          ELSE Result(linkContent)

\* exportChildren(node): the inline export of the children of an element
RECURSIVE exportChildren(_)
exportChildren(node) ==
  Flatten([i \in 1..Len(node.children) |->
             LET child == node.children[i]
             IN IF IsTextNode(child) THEN exportTextFormat(child, child.text)
                ELSE IF ~LINK_export(child).null THEN LINK_export(child).text
                ELSE exportChildren(child)])

\* one space for each level, ' '.repeat(depth)
ListExportIndentOneSpace(depth) == Repeat(" ", depth)

\* ' '.repeat(depth * LIST_INDENT_SIZE)
ListExportIndent(depth) == Repeat(" ", depth * LIST_INDENT_SIZE)

\* the numbers counted from 1 whatever the start, `${index + 1}. `
ListExportPrefixFromOne(listNode, index) ==
  IF listNode.tag = "ul" THEN <<"-", " ">>
  ELSE NumberToString(index + 1) \o <<".", " ">>

\* listNode.getTag() === 'ul' ? '- ' : `${listNode.getStart() + index}. `
ListExportPrefix(listNode, index) ==
  IF listNode.tag = "ul" THEN <<"-", " ">>
  ELSE NumberToString(listNode.start + index) \o <<".", " ">>

\* the loop of listExport from child i on: the lines pushed to output
RECURSIVE listExportFrom(_, _, _, _)
listExportFrom(listNode, i, index, depth) ==
  IF i > Len(listNode.children) THEN <<>>
  ELSE LET listItemNode == listNode.children[i]
       IN IF ~IsListItemNode(listItemNode)
          THEN listExportFrom(listNode, i + 1, index, depth)
          ELSE IF IsNestedListNode(listItemNode)
          THEN <<Join(listExportFrom(listItemNode.children[1], 1, 0, depth + 1), <<NL>>)>>
               \o listExportFrom(listNode, i + 1, index, depth)
          ELSE <<ListExportIndent(depth) \o ListExportPrefix(listNode, index)
                   \o exportChildren(listItemNode)>>
               \o listExportFrom(listNode, i + 1, index + 1, depth)

\* listExport(listNode, exportChildren, depth)
listExport(listNode, depth) == Join(listExportFrom(listNode, 1, 0, depth), <<NL>>)

HEADING_export(node) ==
  IF node.type # "heading" THEN NullResult
  ELSE LET level == Number(Tail(node.tag))
       IN Result(Repeat("#", level) \o <<" ">> \o exportChildren(node))

QUOTE_export(node) ==
  IF node.type = "quote" THEN Result(<<">", " ">> \o exportChildren(node)) ELSE NullResult

\* CODE.export without the language
CODE_exportNoLanguage(node) ==
  IF node.type # "code" THEN NullResult
  ELSE LET textContent == TextContent(node)
           fence == <<Backtick, Backtick, Backtick>>
       IN Result(fence \o (IF textContent # <<>> THEN <<NL>> \o textContent ELSE <<>>)
                 \o <<NL>> \o fence)

CODE_export(node) ==
  IF node.type # "code" THEN NullResult
  ELSE LET textContent == TextContent(node)
           fence == <<Backtick, Backtick, Backtick>>
       IN Result(fence \o node.language
                 \o (IF textContent # <<>> THEN <<NL>> \o textContent ELSE <<>>)
                 \o <<NL>> \o fence)

UNORDERED_LIST_export(node) ==
  IF IsListNode(node) THEN Result(listExport(node, 0)) ELSE NullResult

ORDERED_LIST_export(node) ==
  IF IsListNode(node) THEN Result(listExport(node, 0)) ELSE NullResult

ExportOf(transformer, node) ==
  CASE transformer = "code" -> CODE_export(node)
    [] transformer = "heading" -> HEADING_export(node)
    [] transformer = "quote" -> QUOTE_export(node)
    [] transformer = "ul" -> UNORDERED_LIST_export(node)
    [] transformer = "ol" -> ORDERED_LIST_export(node)

\* a top-level block: the first element transformer whose export is not null,
\* and the inline export of its children when there is none
exportTopLevelElements(node) ==
  LET Ts == {t \in 1..Len(ELEMENT_TRANSFORMERS) :
               ~ExportOf(ELEMENT_TRANSFORMERS[t], node).null}
  IN IF Ts = {} THEN exportChildren(node)
     ELSE ExportOf(ELEMENT_TRANSFORMERS[Min(Ts)], node).text

\* the blocks of the root, joined by newlines
exportMarkdown(blocks) ==
  Join([i \in 1..Len(blocks) |-> exportTopLevelElements(blocks[i])], <<NL>>)

(***************************************************************************)
(* Import                                                                  *)
(***************************************************************************)

NoReplace ==
  [transformer |-> "init", line |-> <<>>, match |-> NoMatch,
   previousNode |-> Null, size |-> 0]

\* a line that opens or closes a fenced code block: three backquotes and an
\* optional language tag of 1 to 10 word characters
IsCodeFence(line) ==
  /\ Len(line) >= 3
  /\ Len(line) <= 13
  /\ AllIn(line, 1, 3, {Backtick})
  /\ AllIn(line, 4, Len(line), WordChars)

\* importBlocks(lineText, rootNode, ...): a paragraph holding the line is
\* appended to the root, the first matching element transformer replaces it,
\* and the inline transformers run on the text left after the match.  The
\* result is the root's children and a record of the replace call.
importBlocks(blocks0, lineText) ==
  LET blocks == Append(blocks0, ParagraphNode(<<TextNode(lineText, {})>>))
      transformer == FirstMatch(ELEMENT_TRANSFORMERS, lineText)
      match == IF transformer = "none" THEN NoMatch ELSE RegExpOf(transformer, lineText)
      children == importTextFormatTransformers(Slice(lineText, match.len))
  IN [root |-> IF transformer = "none"
               THEN Append(blocks0, ParagraphNode(children))
               ELSE ReplaceOf(transformer, blocks, children, match),
      lastReplace |-> [transformer |-> transformer, line |-> lineText, match |-> match,
                       previousNode |-> previousSibling(blocks), size |-> Len(blocks0)]]

\* importCodeBlock(lines, startLineIndex, rootNode): the lines between an
\* opening and a closing fence become the text of one code node
importCodeBlock(blocks0, language, lines) ==
  [root |-> Append(blocks0, CodeNode(language, <<TextNode(Join(lines, <<NL>>), {})>>)),
   lastReplace |-> [NoReplace EXCEPT !.transformer = "codeblock",
                                     !.previousNode = previousSibling(Append(blocks0, Null)),
                                     !.size = Len(blocks0)]]

\* the loop of the import over the lines from line i on
RECURSIVE importFrom(_, _, _)
importFrom(state, lines, i) ==
  IF i > Len(lines) THEN state
  ELSE LET Closing == {j \in (i + 1)..Len(lines) : IsCodeFence(lines[j])}
       IN IF IsCodeFence(lines[i]) /\ Closing # {}
          THEN importFrom(importCodeBlock(state.root, Slice(lines[i], 3),
                                          SubSeq(lines, i + 1, Min(Closing) - 1)),
                          lines, Min(Closing) + 1)
          ELSE importFrom(importBlocks(state.root, lines[i]), lines, i + 1)

(***************************************************************************)
(* Bounds and inputs                                                       *)
(***************************************************************************)

\* lines of a document imported line by line
MaxLines == 3

\* content lines of a fenced code block
MaxCodeLines == 1

\* items of a single-level list
MaxItems == 3

\* length of the lines enumerated exhaustively
MaxLineLen == 4

\* '#' characters at the start of a line
MaxHashes == 8

\* whitespace characters before a list marker
MaxLeading == 9

RECURSIVE SeqsUpTo(_, _)
SeqsUpTo(S, n) ==
  IF n = 0 THEN {<<>>}
  ELSE LET shorter == SeqsUpTo(S, n - 1)
       IN shorter \cup {Append(s, x) : s \in {t \in shorter : Len(t) = n - 1}, x \in S}

\* the lines a document imported line by line is made of
DocLines ==
  {<<"-", " ", "a">>, <<"*", " ", "a">>, <<" ", " ", " ", " ", "-", " ", "b">>, <<" ", " ", " ", " ", " ", " ", " ", " ", "-", " ", "b">>,
   <<"1", ".", " ", "a">>, <<"5", ".", " ", "a">>, <<"6", ".", " ", "b">>, <<" ", " ", " ", " ", "1", ".", " ", "b">>,
   <<"#", " ", "a">>, <<"a">>, <<>>}

\* the language tags and the content lines of the fenced code blocks
CodeLanguages == {<<>>, <<"j", "s">>}

CodeLines == {<<>>, <<"a">>, <<"#", " ", "a">>}

\* every line of at most MaxLineLen of these characters
LineChars == {" ", "#", ">", Backtick, "-", "1", ".", "a"}

ShortLines == SeqsUpTo(LineChars, MaxLineLen)

\* n '#' characters, then nothing, a space or a tab, then some text
HeadingTexts ==
  {<<>>, <<"a">>, <<"a", " ", "b">>, <<"*", "*", "a", "*", "*">>, <<"#">>}

HashLines ==
  {Repeat("#", n) \o sep \o text :
     n \in 1..MaxHashes, sep \in {<<>>, <<" ">>, <<"\t">>}, text \in HeadingTexts}

\* list lines behind w whitespace characters
ListMarkers == {<<"-">>, <<"*">>, <<"+">>, <<"1", ".">>, <<"5", ".">>, <<"1", "2", ".">>}

LeadingLines ==
  {Repeat(ws, w) \o marker \o <<" ", "a">> :
     w \in 0..MaxLeading, ws \in Whitespace, marker \in ListMarkers}

\* single-level lists of at most MaxItems items
UnorderedItems ==
  {<<"-", " ", "a">>, <<"*", " ", "a">>, <<"+", " ", "b">>, <<" ", " ", "-", " ", "b">>}

OrderedItems ==
  {<<"1", ".", " ", "a">>, <<"2", ".", " ", "b">>, <<"5", ".", " ", "a">>, <<"6", ".", " ", "b">>, <<"7", ".", " ", "b">>, <<"0", "5", ".", " ", "a">>}

ListInputs ==
  {Join(items, <<NL>>) :
     items \in (SeqsUpTo(UnorderedItems, MaxItems) \cup SeqsUpTo(OrderedItems, MaxItems))
               \ {<<>>}}

\* headings, quotes, styled spans, links and nested lists
ConstructInputs ==
  {<<"#", " ", "a">>, <<"#", "#", "#", " ">>, <<"#", "#", "#", "#", "#", "#", " ", "a", " ", "b">>,
   <<">", " ", "a">>, <<">", " ", "a", " ", "b">>, <<"a">>,
   <<"*", "*", "a", "*", "*">>, <<"_", "_", "a", "_", "_">>, <<"*", "a", "*">>,
   <<"_", "a", "_">>, <<"~", "~", "a", "~", "~">>, <<"*", "*", "*", "a", "*", "*", "*">>,
   <<"_", "_", "_", "a", "_", "_", "_">>, <<"*", "*", "*", "a", "b", "c", "*", "*", "*">>, <<"a", " ", "*", "*", "b", "*", "*", " ", "c">>,
   <<Backtick, "a", Backtick>>, <<Backtick, "*", "a", "*", Backtick>>, <<"[", "x", "]", "(", "e", ")">>,
   <<"[", "x", "]", "(", "h", "t", "t", "p", ":", "/", "/", "e", ")">>, <<"*", "*", "[", "x", "]", "(", "h", "t", "t", "p", ":", "/", "/", "e", ")", "*", "*">>, <<"*", "[", "x", "]", "(", "e", ")", "*">>,
   <<"a", " ", "[", "x", "]", "(", "e", ")", " ", "b">>, <<"~", "~", "[", "x", "]", "(", "e", ")", "~", "~">>, <<"-", " ", "a", NL, " ", " ", " ", " ", "-", " ", "b", NL>>,
   <<"-", " ", "a", NL, " ", " ", " ", " ", "-", " ", "b">>, <<"5", ".", " ", "a", NL, "6", ".", " ", "b", NL>>, <<"-", " ", "a", NL, " ", " ", " ", " ", "-", " ", "b", NL, " ", " ", " ", " ", " ", " ", " ", " ", "-", " ", "c">>,
   <<"-", " ", "a", NL, NL, "-", " ", "b">>}

\* fenced code blocks
CodeInputs ==
  {Join(<<<<Backtick, Backtick, Backtick>> \o language>> \o lines
          \o <<<<Backtick, Backtick, Backtick>>>>, <<NL>>) :
     language \in CodeLanguages, lines \in SeqsUpTo(CodeLines, MaxCodeLines + 1)}

\* a list line behind an item of an unordered list
FollowingLines == {<<"-", " ", "a", NL>> \o line : line \in LeadingLines}

MarkdownInputs ==
  ShortLines \cup HashLines \cup LeadingLines \cup FollowingLines \cup ListInputs
    \cup ConstructInputs \cup CodeInputs

\* children of a link node
MaxLinkChildren == 2

LinkTextNodes ==
  {TextNode(text, format) : text \in {<<"x">>, <<"y">>}, format \in SUBSET {"bold", "italic"}}

LinkUrls == {<<"e">>, <<"h", "t", "t", "p", ":", "/", "/", "e">>}

\* the link nodes of the documents exported: text children, and a child
\* that is no text node
LinkNodes ==
  {LinkNode(url, children) :
     url \in LinkUrls,
     children \in SeqsUpTo(LinkTextNodes, MaxLinkChildren)
                   \cup {<<LinkNode(<<"e">>, <<node>>)>> : node \in LinkTextNodes}}

\* a link, bare and inside each style
LinkStyles ==
  {BOLD_ITALIC_STAR, BOLD_ITALIC_UNDERSCORE, BOLD_STAR, BOLD_UNDERSCORE,
   STRIKETHROUGH, ITALIC_STAR, ITALIC_UNDERSCORE}

BareLinks ==
  {<<"[">> \o text \o <<"]", "(">> \o url \o <<")">> :
     text \in {<<"x">>, <<"x", " ", "y">>}, url \in LinkUrls}

LinkInputs ==
  BareLinks \cup {style.tag \o link \o style.tag : style \in LinkStyles, link \in BareLinks}

(***************************************************************************)
(* The state machine                                                       *)
(***************************************************************************)

NoOutput == [set |-> FALSE, text |-> <<>>]

\* the state after root.clear()
Init ==
  /\ root = <<>>
  /\ markdown = <<>>
  /\ output = NoOutput
  /\ lastReplace = NoReplace

\* one more line is imported into the document
ImportLine ==
  /\ Len(markdown) < MaxLines
  /\ \E lineText \in DocLines :
       LET state == importBlocks(root, lineText)
       IN /\ ~IsCodeFence(lineText)
          /\ root' = state.root
          /\ lastReplace' = state.lastReplace
          /\ markdown' = Append(markdown, lineText)
          /\ output' = NoOutput

\* one more fenced code block is imported into the document
ImportCode ==
  /\ Len(markdown) < MaxLines
  /\ \E language \in CodeLanguages, lines \in SeqsUpTo(CodeLines, MaxCodeLines) :
       LET state == importCodeBlock(root, language, lines)
           fence == <<Backtick, Backtick, Backtick>>
       IN /\ root' = state.root
          /\ lastReplace' = state.lastReplace
          /\ markdown' = markdown \o <<fence \o language>> \o lines \o <<fence>>
          /\ output' = NoOutput

\* $convertFromMarkdownString(markdownString): the root is cleared and every
\* line of the string imported
convertFromMarkdownString(markdownString) ==
  LET lines == SplitLines(markdownString)
      state == importFrom([root |-> <<>>, lastReplace |-> NoReplace], lines, 1)
  IN /\ root' = state.root
     /\ lastReplace' = state.lastReplace
     /\ markdown' = lines
     /\ output' = NoOutput

\* $convertToMarkdownString()
convertToMarkdownString ==
  /\ ~output.set
  /\ output' = [set |-> TRUE, text |-> exportMarkdown(root)]
  /\ UNCHANGED <<root, markdown, lastReplace>>

Next == ImportLine \/ ImportCode \/ convertToMarkdownString

\* a document imported line by line, and exported
Spec == Init /\ [][Next]_vars

Convert ==
  /\ markdown = <<>>
  /\ \E markdownString \in MarkdownInputs : convertFromMarkdownString(markdownString)

NextConvert == Convert \/ convertToMarkdownString

\* one Markdown string converted to a document, and exported
SpecConvert == Init /\ [][NextConvert]_vars

\* a document that is empty or one paragraph holding a link
InitLink ==
  /\ root \in {<<>>} \cup {<<ParagraphNode(<<link>>)>> : link \in LinkNodes}
  /\ markdown = <<>>
  /\ output = NoOutput
  /\ lastReplace = NoReplace

ConvertLink ==
  /\ root = <<>>
  /\ markdown = <<>>
  /\ \E markdownString \in LinkInputs : convertFromMarkdownString(markdownString)

NextLink == ConvertLink \/ convertToMarkdownString

\* links: exported from a document, and imported from a string
SpecLink == InitLink /\ [][NextLink]_vars

(***************************************************************************)
(* Properties                                                              *)
(***************************************************************************)

\* the number of characters of S that the line starts with
LeadingCount(line, S) == Max({k \in 0..Len(line) : AllIn(line, 1, k, S)})

IsListLine(line) == UnorderedListRegExp(line).ok \/ OrderedListRegExp(line).ok

\* the list items of a list that hold a line, at any depth
RECURSIVE ItemCount(_)
ItemCount(list) ==
  LET count(item) == IF IsNestedListNode(item) THEN ItemCount(item.children[1]) ELSE 1
      RECURSIVE sum(_)
      sum(i) == IF i = 0 THEN 0 ELSE sum(i - 1) + count(list.children[i])
  IN sum(Len(list.children))

RECURSIVE ListItemTotal(_)
ListItemTotal(blocks) ==
  IF blocks = <<>> THEN 0
  ELSE ListItemTotal(Front(blocks))
       + (IF IsListNode(Last(blocks)) THEN ItemCount(Last(blocks)) ELSE 0)

\* the number of lists, beyond the top-level one, around each item that holds
\* a line, in document order
RECURSIVE ItemDepths(_, _)
ItemDepths(list, depth) ==
  Flatten([i \in 1..Len(list.children) |->
             IF IsNestedListNode(list.children[i])
             THEN ItemDepths(list.children[i].children[1], depth + 1)
             ELSE <<depth>>])

\* C7: no line matches the regular expressions of two of the five element
\* transformers, so the transformer applied to an imported line is the one
\* applied under every ordering of the five.
Orderings == {p \in [1..5 -> 1..5] : \A i, j \in 1..5 : i # j => p[i] # p[j]}

\* which of the five regular expressions match the line, in the order of
\* ELEMENT_TRANSFORMERS
Matches(line) ==
  <<RegExpOf(ELEMENT_TRANSFORMERS[1], line).ok, RegExpOf(ELEMENT_TRANSFORMERS[2], line).ok,
    RegExpOf(ELEMENT_TRANSFORMERS[3], line).ok, RegExpOf(ELEMENT_TRANSFORMERS[4], line).ok,
    RegExpOf(ELEMENT_TRANSFORMERS[5], line).ok>>

\* the first transformer whose regExp matches when the five are tried in the
\* order p[1], ..., p[5]
FirstUnder(p, matches) == ELEMENT_TRANSFORMERS[p[Min({i \in 1..5 : matches[p[i]]})]]

C7_DisjointPatterns ==
  lastReplace.transformer \notin {"init", "codeblock"} =>
    \A matches \in {Matches(lastReplace.line)} :
      IF \A i \in 1..5 : ~matches[i] THEN lastReplace.transformer = "none"
      ELSE /\ Cardinality({i \in 1..5 : matches[i]}) = 1
           /\ \A p \in Orderings : FirstUnder(p, matches) = lastReplace.transformer

C7_Witness ==
  /\ lastReplace.transformer = "ol"
  /\ lastReplace.line = <<" ", "1", ".", " ">>
  /\ root = <<ListNode("ol", 1, <<ListItemNode(<<TextNode(<<>>, {})>>)>>)>>

\* C4: a line of n '#' characters (n from 1 to 6) and a whitespace character
\* becomes a heading of level n that holds the rest of the line, and is
\* exported as n '#' characters, a space and the children; a line of 7 or
\* more '#' characters is no heading.
C4_Heading ==
  (Len(markdown) = 1 /\ lastReplace.transformer # "init") =>
    LET line == markdown[1]
        n == LeadingCount(line, {"#"})
    IN /\ (n \in 1..6 /\ Len(line) > n /\ line[n + 1] \in Whitespace) =>
            /\ lastReplace.transformer = "heading"
            /\ Len(root) = 1
            /\ root[1].type = "heading"
            /\ root[1].tag = <<"h", DigitChar(n)>>
            /\ root[1].children = importTextFormatTransformers(Slice(line, n + 1))
            /\ TextContent(root[1]) = <<>> <=> Len(line) = n + 1
            /\ output.set =>
                 output.text = Repeat("#", n) \o <<" ">> \o exportChildren(root[1])
       /\ n >= 7 =>
            /\ lastReplace.transformer = "none"
            /\ Len(root) = 1
            /\ root[1].type = "paragraph"

C4_Witness ==
  /\ markdown = <<<<"#", "#", "#", " ">>>>
  /\ root = <<HeadingNode(<<"h", "3">>, <<TextNode(<<>>, {})>>)>>
  /\ output.set
  /\ output.text = <<"#", "#", "#", " ">>

\* C9: the list item made from a list line with w leading whitespace
\* characters ends at indent level floor(w / 4), and stays an item of the
\* top-level list when w < 4.
C9_ListIndent ==
  lastReplace.transformer \in {"ul", "ol"} =>
    LET w == LeadingCount(lastReplace.line, Whitespace)
    IN /\ IsListNode(Last(root))
       /\ getIndent(Last(root)) = w \div 4
       /\ w < 4 => ~IsNestedListNode(Last(Last(root).children))

C9_Witness ==
  /\ lastReplace.transformer = "ul"
  /\ LeadingCount(lastReplace.line, Whitespace) = 9
  /\ Len(markdown) = 2
  /\ getIndent(Last(root)) = 2

\* C6: "***abc***" becomes one text node "abc" whose format is exactly
\* {bold, italic}.
C6_Precedence ==
  markdown = <<<<"*", "*", "*", "a", "b", "c", "*", "*", "*">>>> =>
    root = <<ParagraphNode(<<TextNode(<<"a", "b", "c">>, {"bold", "italic"})>>)>>

C6_Witness ==
  /\ markdown = <<<<"*", "*", "*", "a", "b", "c", "*", "*", "*">>>>
  /\ Len(root[1].children) = 1
  /\ root[1].children[1].format = {"bold", "italic"}

\* whether the last list line was appended to the list before it: the root
\* has no more blocks than before, and the list has one more item
Appended ==
  /\ Len(root) = lastReplace.size
  /\ IsListNode(lastReplace.previousNode)
  /\ ItemCount(Last(root)) = ItemCount(lastReplace.previousNode) + 1

\* whether a new list node took the place of the paragraph of the last line
Created ==
  /\ Len(root) = lastReplace.size + 1
  /\ IsListNode(Last(root))
  /\ ItemCount(Last(root)) = 1
  /\ Len(root) >= 2 => root[Len(root) - 1] = lastReplace.previousNode

\* the tag of the list that the last line belongs to
LastTag == IF lastReplace.transformer = "ul" THEN "ul" ELSE "ol"

SameKindBefore ==
  /\ IsListNode(lastReplace.previousNode)
  /\ lastReplace.previousNode.tag = LastTag

\* C8, as claimed: the item is appended to the preceding sibling exactly when
\* that sibling is a list of the same kind and the indent of the line is 0,
\* and a new list node is created in every other case.
C8_MergeOnlyAtIndentZero ==
  lastReplace.transformer \in {"ul", "ol"} =>
    LET indent == LeadingCount(lastReplace.line, Whitespace) \div 4
    IN IF SameKindBefore /\ indent = 0 THEN Appended ELSE Created

\* C8, amended: the item is appended to the preceding sibling exactly when
\* that sibling is a list of the same kind, whatever the indent of the line;
\* a new list node is created when there is no preceding list or it is of
\* the other kind.
C8_MergeSameKind ==
  lastReplace.transformer \in {"ul", "ol"} =>
    /\ Last(root).tag = LastTag
    /\ IF SameKindBefore THEN Appended /\ ~Created ELSE Created /\ ~Appended

C8_Witness ==
  /\ markdown = <<<<"-", " ", "a">>, <<" ", " ", " ", " ", "-", " ", "b">>>>
  /\ Len(root) = 1
  /\ Appended

\* C10: after list lines only, no two adjacent blocks of the root are lists of
\* the same tag, and the lists hold one item for each line.
C10_ListInvariant ==
  (\A i \in 1..Len(markdown) : IsListLine(markdown[i])) =>
    /\ \A i \in 1..(Len(root) - 1) :
         ~(/\ IsListNode(root[i])
           /\ IsListNode(root[i + 1])
           /\ root[i].tag = root[i + 1].tag)
    /\ \A i \in 1..Len(root) : IsListNode(root[i])
    /\ ListItemTotal(root) = Len(markdown)

C10_Witness ==
  /\ markdown = <<<<"1", ".", " ", "a">>, <<" ", " ", " ", " ", "-", " ", "b">>, <<"*", " ", "a">>>>
  /\ Len(root) = 2
  /\ root[1].tag = "ol"
  /\ root[2].tag = "ul"
  /\ ListItemTotal(root) = 3

\* the lines of an exported document
OutputLines == SplitLines(output.text)

\* the digits that a list line shows before its '.'
ShownNumber(line) ==
  LET w == LeadingCount(line, Whitespace)
  IN SubSeq(line, w + 1, w + LeadingCount(Slice(line, w), Digits))

\* the exported lines that do not start with whitespace
RECURSIVE Unindented(_)
Unindented(lines) ==
  IF lines = <<>> THEN <<>>
  ELSE (IF Head(lines) # <<>> /\ Head(lines)[1] \in Whitespace THEN <<>> ELSE <<Head(lines)>>)
       \o Unindented(Tail(lines))

\* C2: ordered-list lines whose first number is n make one ordered list that
\* starts at n, and the k-th item it exports as a line (k = 0, 1, ...) has
\* the marker 'n+k. '; "5. a\n6. b" is exported as "5. a\n6. b".
C2_OrderedStart ==
  (markdown # <<>> /\ \A i \in 1..Len(markdown) : OrderedListRegExp(markdown[i]).ok) =>
    LET n == Number(ShownNumber(markdown[1]))
    IN /\ Len(root) = 1
       /\ IsListNode(root[1])
       /\ root[1].tag = "ol"
       /\ root[1].start = n
       /\ output.set =>
            LET top == Unindented(OutputLines)
            IN /\ \A k \in 1..Len(top) :
                    LET marker == NumberToString(n + k - 1) \o <<".", " ">>
                    IN SubSeq(top[k], 1, Len(marker)) = marker
               /\ markdown = <<<<"5", ".", " ", "a">>, <<"6", ".", " ", "b">>>> =>
                    output.text = <<"5", ".", " ", "a", NL, "6", ".", " ", "b">>

C2_Witness ==
  /\ markdown = <<<<"5", ".", " ", "a">>, <<" ", " ", " ", " ", "1", ".", " ", "b">>, <<"6", ".", " ", "b">>>>
  /\ output.set
  /\ OutputLines = <<<<"5", ".", " ", "a">>, <<" ", " ", " ", " ", "1", ".", " ", "b">>, <<"6", ".", " ", "b">>>>

\* C3: "- a\n    - b\n" becomes a list of the item a and an item that holds
\* a list of the item b, one level down, and b is exported behind exactly 4
\* spaces; every exported item line starts with 4 spaces for each list around
\* the item beyond the top-level one.
C3_NestedList ==
  /\ markdown = <<<<"-", " ", "a">>, <<" ", " ", " ", " ", "-", " ", "b">>, <<>>>> =>
       /\ Len(root) = 2
       /\ root[1] = ListNode("ul", 1,
                      <<ListItemNode(<<TextNode(<<"a">>, {})>>),
                        ListItemNode(<<ListNode("ul", 1,
                                         <<ListItemNode(<<TextNode(<<"b">>, {})>>)>>)>>)>>)
       /\ getIndent(root[1]) = 1
       /\ output.set => OutputLines[2] = <<" ", " ", " ", " ", "-", " ", "b">>
  /\ (output.set /\ markdown # <<>> /\ \A i \in 1..Len(markdown) : IsListLine(markdown[i])) =>
       LET depths == Flatten([i \in 1..Len(root) |-> ItemDepths(root[i], 0)])
       IN /\ Len(OutputLines) = Len(depths)
          /\ \A k \in 1..Len(depths) :
               LeadingCount(OutputLines[k], Whitespace) = 4 * depths[k]

C3_Witness ==
  /\ markdown = <<<<"-", " ", "a">>, <<" ", " ", " ", " ", "-", " ", "b">>, <<>>>>
  /\ output.set
  /\ output.text = <<"-", " ", "a", NL, " ", " ", " ", " ", "-", " ", "b", NL>>

\* the tags around a text of the given format, for the formats of the link
\* documents
StyleTag(format) ==
  CASE format = {} -> <<>>
    [] format = {"bold"} -> <<"*", "*">>
    [] format = {"italic"} -> <<"*">>
    [] format = {"bold", "italic"} -> <<"*", "*", "*">>

\* C5: "**[x](http://e)**" is exported as it was imported; the link that
\* LINK.replace makes has one text child with the format of the text it
\* replaces; LINK.export puts the tags of that format around '[text](url)'
\* when the link has exactly one child and it is a text node, and gives the
\* bare '[text](url)' otherwise.
C5_StyledLink ==
  /\ (markdown = <<<<"*", "*", "[", "x", "]", "(", "h", "t", "t", "p", ":", "/", "/", "e", ")", "*", "*">>>> /\ output.set) =>
       output.text = <<"*", "*", "[", "x", "]", "(", "h", "t", "t", "p", ":", "/", "/", "e", ")", "*", "*">>
  /\ \A style \in LinkStyles, text \in {<<"x">>, <<"x", " ", "y">>}, url \in LinkUrls :
       markdown = <<style.tag \o <<"[">> \o text \o <<"]", "(">> \o url \o <<")">> \o style.tag>> =>
         root = <<ParagraphNode(<<LinkNode(url, <<TextNode(text, Range(style.format))>>)>>)>>
  /\ (markdown = <<>> /\ root # <<>> /\ output.set) =>
       LET link == root[1].children[1]
           linkContent == <<"[">> \o TextContent(link) \o <<"]", "(">> \o link.url \o <<")">>
       IN IF Len(link.children) = 1 /\ IsTextNode(link.children[1])
          THEN output.text = StyleTag(link.children[1].format) \o linkContent
                               \o StyleTag(link.children[1].format)
          ELSE output.text = linkContent

C5_Witness ==
  /\ markdown = <<<<"*", "*", "[", "x", "]", "(", "h", "t", "t", "p", ":", "/", "/", "e", ")", "*", "*">>>>
  /\ root = <<ParagraphNode(<<LinkNode(<<"h", "t", "t", "p", ":", "/", "/", "e">>, <<TextNode(<<"x">>, {"bold"})>>)>>)>>
  /\ output.set
  /\ output.text = <<"*", "*", "[", "x", "]", "(", "h", "t", "t", "p", ":", "/", "/", "e", ")", "*", "*">>

\* whitespace normalization: every run of spaces, tabs and newlines is one
\* space, and there is none at either end
RECURSIVE Collapse(_)
Collapse(s) ==
  IF s = <<>> THEN <<>>
  ELSE IF Head(s) \notin Whitespace \cup {NL} THEN <<Head(s)>> \o Collapse(Tail(s))
  ELSE IF Tail(s) # <<>> /\ Head(Tail(s)) \in Whitespace \cup {NL} THEN Collapse(Tail(s))
  ELSE <<" ">> \o Collapse(Tail(s))

NormalizeWs(s) ==
  LET c == Collapse(s)
      d == IF c # <<>> /\ Head(c) = " " THEN Tail(c) ELSE c
  IN IF d # <<>> /\ Last(d) = " " THEN Front(d) ELSE d

\* text without the characters of the inline constructs
Plain(text) ==
  \A i \in 1..Len(text) : text[i] \notin {"*", "_", "~", Backtick, "[", "]", "(", ")"}

IsHeadingInput(lines) ==
  /\ Len(lines) = 1
  /\ HeadingRegExp(lines[1]).ok
  /\ Plain(Slice(lines[1], HeadingRegExp(lines[1]).len))

IsQuoteInput(lines) ==
  /\ Len(lines) = 1
  /\ QuoteRegExp(lines[1]).ok
  /\ Plain(Slice(lines[1], 2))

IsCodeInput(lines) ==
  /\ Len(lines) >= 2
  /\ IsCodeFence(lines[1])
  /\ Last(lines) = <<Backtick, Backtick, Backtick>>
  /\ \A i \in 2..(Len(lines) - 1) : ~IsCodeFence(lines[i])

\* a single-level unordered list whose markers are among Markers
IsUnorderedInput(lines, Markers) ==
  /\ lines # <<>>
  /\ \A i \in 1..Len(lines) :
       LET match == UnorderedListRegExp(lines[i])
       IN /\ match.ok
          /\ Len(match.g1) < 4
          /\ lines[i][Len(match.g1) + 1] \in Markers
          /\ Plain(Slice(lines[i], match.len))

\* a single-level ordered list; numbered: the numbers count up by one from
\* the first and are written without leading zeros
IsOrderedInput(lines, numbered) ==
  /\ lines # <<>>
  /\ \A i \in 1..Len(lines) :
       LET match == OrderedListRegExp(lines[i])
       IN /\ match.ok
          /\ Len(match.g1) < 4
          /\ Plain(Slice(lines[i], match.len))
          /\ numbered =>
               /\ NumberToString(Number(match.g2)) = match.g2
               /\ Number(match.g2) = Number(OrderedListRegExp(lines[1]).g2) + i - 1

\* text between the tags of one of the styles
IsSpanInput(lines, Styles) ==
  /\ Len(lines) = 1
  /\ \E style \in Styles :
       LET n == Len(style.tag)
           text == SubSeq(lines[1], n + 1, Len(lines[1]) - n)
       IN /\ Len(lines[1]) > 2 * n
          /\ SubSeq(lines[1], 1, n) = style.tag
          /\ Slice(lines[1], Len(lines[1]) - n) = style.tag
          /\ Plain(text)
          /\ text[1] \notin Whitespace
          /\ Last(text) \notin Whitespace

IsLinkInput(lines) ==
  /\ Len(lines) = 1
  /\ \E j \in 3..(Len(lines[1]) - 3) :
       /\ lines[1][1] = "["
       /\ SubSeq(lines[1], j, j + 1) = <<"]", "(">>
       /\ Last(lines[1]) = ")"
       /\ Plain(SubSeq(lines[1], 2, j - 1))
       /\ Plain(SubSeq(lines[1], j + 2, Len(lines[1]) - 1))

IsSingleConstruct(lines, Markers, numbered, Styles) ==
  \/ IsHeadingInput(lines)
  \/ IsQuoteInput(lines)
  \/ IsCodeInput(lines)
  \/ IsUnorderedInput(lines, Markers)
  \/ IsOrderedInput(lines, numbered)
  \/ IsSpanInput(lines, Styles)
  \/ IsLinkInput(lines)

RoundTrips == NormalizeWs(output.text) = NormalizeWs(Join(markdown, <<NL>>))

\* C1, as claimed: the export of the import of a heading, a quote, a fenced
\* code block, a single-level list with any of the markers, a bold, italic
\* or strikethrough span or a link is the input, up to whitespace.
C1_RoundTripAnyMarker ==
  (output.set /\ IsSingleConstruct(markdown, {"-", "*", "+"}, FALSE, LinkStyles)) =>
    RoundTrips

\* C1, amended: the same for an unordered list with the marker '-', an
\* ordered list numbered upwards by one from its first number without
\* leading zeros, and a span between '*', '**', '***' or '~~'; an unordered
\* list written with any of the markers is exported with the marker '-'.
C1_RoundTripCanonical ==
  /\ (/\ output.set
      /\ IsSingleConstruct(markdown, {"-"}, TRUE,
                           {BOLD_ITALIC_STAR, BOLD_STAR, STRIKETHROUGH, ITALIC_STAR})) =>
       RoundTrips
  /\ (output.set /\ markdown # <<>> /\ IsUnorderedInput(markdown, {"-", "*", "+"})) =>
       \A i \in 1..Len(markdown) : SubSeq(SplitLines(output.text)[i], 1, 2) = <<"-", " ">>

C1_Witness ==
  /\ markdown = <<<<"-", " ", "a">>, <<" ", " ", "-", " ", "b">>, <<"-", " ", "a">>>>
  /\ IsSingleConstruct(markdown, {"-"}, TRUE, {BOLD_STAR})
  /\ output.set
  /\ output.text = <<"-", " ", "a", NL, "-", " ", "b", NL, "-", " ", "a">>

====
